---- MODULE Spec2Model ----
(***************************************************************************)
(* A model of the bimodal multicast node: the three-hop reconciliation     *)
(* exchange (gossip -> solicitation -> synchronization) of                 *)
(* pkg/internal/server/server.go, the callback dispatch that feeds the     *)
(* message buffer, the custom callback registry, and the node lifecycle    *)
(* (Start/Stop, the HTTP server goroutines and the gossip scheduler).      *)
(*                                                                         *)
(* The buffer, peer, round, httputil and gossip-scheduler packages are     *)
(* not part of the sources at hand; their operations are modelled from     *)
(* the written specification and are marked so in MODEL_MAP.json.          *)
(* The per-message gossip counter is left out: no handler reads it.        *)
(***************************************************************************)
EXTENDS Naturals, Sequences, FiniteSets, TLC

VARIABLES
    msgBuffer,       \* node -> sequence of messages (cfg.MsgBuf)
    peerBuffer,      \* node -> set of peers (cfg.PeerBuf)
    gossipRound,     \* node -> round counter (cfg.GossipRound)
    net,             \* HTTP requests sent and not yet handled
    syncing,         \* synchronization handlers inside their message loop
    nextID,          \* number of message ids handed out so far
    created,         \* history: messages created by a local call, with the node
    accepted,        \* history: node -> ids a callback returned ok=true for
    lastCb,          \* history: the latest callback dispatch and its results
    lastDrop,        \* history: the latest request a handler dropped on a decode error
    cbRuns,          \* history: <<node, id>> -> number of callback invocations
    http,            \* node -> state of its http.Server
    stop,            \* node -> current b.stop channel (0 is nil)
    closed,          \* node -> channels that were closed
    serverG,         \* node -> channel -> goroutine running startServer
    watcherG,        \* node -> channel -> goroutine waiting on <-stop
    schedG,          \* node -> channel -> gossip scheduler goroutine
    startErr,        \* node -> channel -> what Bmmc.Start returned
    crashed,         \* node -> the process panicked
    cfgCallbacks,    \* the custom callback map given in the configuration
    customRegistry,  \* the registry NewCustomRegistry built
    regErr,          \* the error NewCustomRegistry returned
    validateErr      \* the error ValidateCustomCallbacks returned

protoVars == <<msgBuffer, peerBuffer, gossipRound, net, syncing, nextID, created,
               accepted, lastCb, lastDrop, cbRuns>>
lifeVars  == <<http, stop, closed, serverG, watcherG, schedG, startErr, crashed>>
regVars   == <<cfgCallbacks, customRegistry, regErr, validateErr>>
vars      == <<msgBuffer, peerBuffer, gossipRound, net, syncing, nextID, created,
               accepted, lastCb, lastDrop, cbRuns,
               http, stop, closed, serverG, watcherG, schedG, startErr, crashed,
               cfgCallbacks, customRegistry, regErr, validateErr>>

(***************************************************************************)
(* Bounds of the model.                                                    *)
(***************************************************************************)
\* events of a run of the general specification: the messages created by
\* local calls and the scheduler rounds of all nodes, counted together
MaxEvents == 4
\* Start() calls per node (channels 1..MaxStarts)
MaxStarts == 2
\* scheduler rounds per node in the two-node convergence scenario
ConvRounds == 2
\* events of the membership scenario
MemberEvents == 3
\* events of the lifecycle scenario
LifeEvents == 2
\* Start() calls in the stop scenario
StopStarts == 1
\* digests or messages in a request, and messages in a buffer, of the
\* single-request scenario
MaxReqLen == 2
\* scheduler rounds per node in the repeated-delivery scenario
RepeatRounds == 2

(***************************************************************************)
(* Nodes, callback types, payloads.                                        *)
(***************************************************************************)
Nodes == {"N1", "N2", "N3"}

\* the two nodes the general specification runs
Pair == {"N1", "N2"}

NOCALLBACK == "NONE"
ADDPEER == "ADDPEER"
REMOVEPEER == "REMOVEPEER"

\* keys of the default callback table; the names a custom callback may not take
defaultCallbacks == {ADDPEER, REMOVEPEER, NOCALLBACK}

\* custom callback types of the application: "review" always returns
\* (false, nil), "audit" may return anything; "ghost" is registered nowhere
CustomTypes == {"review", "audit"}
GhostType == "ghost"

\* what a custom callback function may return
CallbackMayReturn(behaviour, ok, err) ==
    \/ behaviour = "free"
    \/ behaviour = "reject" /\ ~ok /\ ~err

Chans == 1..MaxStarts

(***************************************************************************)
(* Message buffer and digest buffer.                                       *)
(***************************************************************************)
Ids(buf) == {buf[i].id : i \in DOMAIN buf}

AlreadyExists(buf, m) == \E i \in DOMAIN buf : buf[i].id = m.id


AddMessage(buf, m) == IF AlreadyExists(buf, m) THEN buf ELSE Append(buf, m)

Digest(m) == [id |-> m.id, cbType |-> m.cbType]

DigestBuffer(buf) == [i \in DOMAIN buf |-> Digest(buf[i])]

GetMissingDigests(this, local) ==
    SelectSeq(this, LAMBDA d : ~(\E j \in DOMAIN local : local[j].id = d.id))

RECURSIVE GetMissingMessageBuffer(_, _)
GetMissingMessageBuffer(wanted, buf) ==
    IF wanted = <<>> THEN <<>>
    ELSE LET found == SelectSeq(buf, LAMBDA m : m.id = Head(wanted).id)
             first == IF found = <<>> THEN <<>> ELSE <<Head(found)>>
         IN first \o GetMissingMessageBuffer(Tail(wanted), buf)

NewMessage(id, msg, cbType) == [id |-> id, msg |-> msg, cbType |-> cbType]

(***************************************************************************)
(* Requests on the wire.                                                   *)
(***************************************************************************)
HTTPGossip(to, addr, rnd, digests) ==
    [kind |-> "gossip", to |-> to, addr |-> addr, round |-> rnd,
     digests |-> digests, msgs |-> <<>>]

HTTPSolicitation(to, addr, rnd, digests) ==
    [kind |-> "solicitation", to |-> to, addr |-> addr, round |-> rnd,
     digests |-> digests, msgs |-> <<>>]

HTTPSynchronization(to, addr, msgs) ==
    [kind |-> "synchronization", to |-> to, addr |-> addr, round |-> 0,
     digests |-> <<>>, msgs |-> msgs]

Serving(n) == http[n] = "serving" /\ ~crashed[n]

(***************************************************************************)
(* Callback dispatch.  A dispatch works on                                 *)
(*   st = [buf, peers, acc, def, cus]:                                     *)
(* the node's message buffer, its peer buffer, the ids accepted so far,    *)
(* and what the default and the custom callback returned ("none" when no   *)
(* callback of that table ran).                                            *)
(***************************************************************************)
Result(ok, err) == [ok |-> ok, err |-> err]
NoResult == [ok |-> FALSE, err |-> FALSE]

\* the default callbacks: ADDPEER adds the payload to the peer buffer,
\* REMOVEPEER removes it; both accept the message
DefaultCallback(m, hasPeerBuf, peers) ==
    IF ~hasPeerBuf THEN [ok |-> FALSE, err |-> TRUE, peers |-> peers]
    ELSE IF m.cbType = ADDPEER
         THEN [ok |-> TRUE, err |-> FALSE, peers |-> peers \cup {m.msg}]
    ELSE IF m.cbType = REMOVEPEER
         THEN [ok |-> TRUE, err |-> FALSE, peers |-> peers \ {m.msg}]
    ELSE [ok |-> FALSE, err |-> FALSE, peers |-> peers]

runDefaultCallbacks_KeepsPeers(m, st) ==
    IF m.cbType \notin defaultCallbacks THEN st
    ELSE LET hasPeerBuf == m.cbType \in {ADDPEER, REMOVEPEER}
             r == DefaultCallback(m, hasPeerBuf, st.peers)
         IN [st EXCEPT !.buf = IF r.ok THEN AddMessage(st.buf, m) ELSE st.buf,
                       !.acc = IF r.ok THEN st.acc \cup {m.id} ELSE st.acc,
                       !.ranDef = TRUE,
                       !.def = Result(r.ok, r.err)]

runDefaultCallbacks(m, st) ==
    IF m.cbType \notin defaultCallbacks THEN st
    ELSE LET hasPeerBuf == m.cbType \in {ADDPEER, REMOVEPEER}
             r == DefaultCallback(m, hasPeerBuf, st.peers)
         IN [st EXCEPT !.buf = IF r.ok THEN AddMessage(st.buf, m) ELSE st.buf,
                       !.peers = r.peers,
                       !.acc = IF r.ok THEN st.acc \cup {m.id} ELSE st.acc,
                       !.ranDef = TRUE,
                       !.def = Result(r.ok, r.err)]

runCustomCallbacks_NoGate(m, st, ok, err) ==
    IF m.cbType \notin DOMAIN customRegistry THEN st
    ELSE [st EXCEPT !.buf = AddMessage(st.buf, m),
                    !.acc = IF ok THEN st.acc \cup {m.id} ELSE st.acc,
                    !.ranCus = TRUE,
                    !.cus = Result(ok, err)]

runCustomCallbacks_Append(m, st, ok, err) ==
    IF m.cbType \notin DOMAIN customRegistry THEN st
    ELSE [st EXCEPT !.buf = IF ok THEN Append(st.buf, m) ELSE st.buf,
                    !.acc = IF ok THEN st.acc \cup {m.id} ELSE st.acc,
                    !.ranCus = TRUE,
                    !.cus = Result(ok, err)]

runCustomCallbacks_Evict(m, st, ok, err) ==
    IF m.cbType \notin DOMAIN customRegistry THEN st
    ELSE [st EXCEPT !.buf = IF ok THEN AddMessage(st.buf, m)
                            ELSE SelectSeq(st.buf, LAMBDA x : x.id # m.id),
                    !.acc = IF ok THEN st.acc \cup {m.id} ELSE st.acc,
                    !.ranCus = TRUE,
                    !.cus = Result(ok, err)]

runCustomCallbacks_ErrGate(m, st, ok, err) ==
    IF m.cbType \notin DOMAIN customRegistry THEN st
    ELSE [st EXCEPT !.buf = IF ok /\ ~err THEN AddMessage(st.buf, m) ELSE st.buf,
                    !.acc = IF ok THEN st.acc \cup {m.id} ELSE st.acc,
                    !.ranCus = TRUE,
                    !.cus = Result(ok, err)]

runCustomCallbacks_StoresUnmatched(m, st, ok, err) ==
    IF m.cbType \notin DOMAIN customRegistry
    THEN [st EXCEPT !.buf = AddMessage(st.buf, m)]
    ELSE [st EXCEPT !.buf = IF ok THEN AddMessage(st.buf, m) ELSE st.buf,
                    !.acc = IF ok THEN st.acc \cup {m.id} ELSE st.acc,
                    !.ranCus = TRUE,
                    !.cus = Result(ok, err)]

runCustomCallbacks_OncePerId(m, st, ok, err) ==
    IF m.cbType \notin DOMAIN customRegistry \/ AlreadyExists(st.buf, m) THEN st
    ELSE [st EXCEPT !.buf = IF ok THEN AddMessage(st.buf, m) ELSE st.buf,
                    !.acc = IF ok THEN st.acc \cup {m.id} ELSE st.acc,
                    !.ranCus = TRUE,
                    !.cus = Result(ok, err)]

runCustomCallbacks(m, st, ok, err) ==
    IF m.cbType \notin DOMAIN customRegistry THEN st
    ELSE [st EXCEPT !.buf = IF ok THEN AddMessage(st.buf, m) ELSE st.buf,
                    !.acc = IF ok THEN st.acc \cup {m.id} ELSE st.acc,
                    !.ranCus = TRUE,
                    !.cus = Result(ok, err)]

syncMessage_AlwaysDispatch(m, st, ok, err) ==
    runCustomCallbacks(m, runDefaultCallbacks(m, st), ok, err)

\* the body of synchronizationHandler's loop for one message
syncMessage(m, st, ok, err) ==
    IF m.cbType # NOCALLBACK
    THEN runCustomCallbacks(m, runDefaultCallbacks(m, st), ok, err)
    ELSE [st EXCEPT !.buf = AddMessage(st.buf, m)]

\* the results a custom callback may give for m (one fixed pair when none runs)
Outcomes(m) ==
    IF m.cbType # NOCALLBACK /\ m.cbType \in DOMAIN customRegistry
    THEN {o \in BOOLEAN \X BOOLEAN : CallbackMayReturn(customRegistry[m.cbType], o[1], o[2])}
    ELSE {<<FALSE, FALSE>>}

NoDrop == [kind |-> "none", node |-> "none", round |-> 0]

NoDispatch == [node |-> "none", id |-> 0, had |-> FALSE,
               ranDef |-> FALSE, def |-> NoResult,
               ranCus |-> FALSE, cus |-> NoResult]

\* the number of callback invocations for message id on node n so far
Runs(n, id) == IF <<n, id>> \in DOMAIN cbRuns THEN cbRuns[<<n, id>>] ELSE 0

\* k more invocations for message id on node n
CountRuns(n, id, k) ==
    IF k = 0 THEN cbRuns
    ELSE [p \in DOMAIN cbRuns \cup {<<n, id>>} |->
             IF p = <<n, id>> THEN Runs(n, id) + k ELSE cbRuns[p]]

applySync(n, m, ok, err) ==
    LET st0 == [buf |-> msgBuffer[n], peers |-> peerBuffer[n], acc |-> accepted[n],
                ranDef |-> FALSE, def |-> NoResult, ranCus |-> FALSE, cus |-> NoResult]
        st == syncMessage(m, st0, ok, err)
    IN /\ msgBuffer' = [msgBuffer EXCEPT ![n] = st.buf]
       /\ peerBuffer' = [peerBuffer EXCEPT ![n] = st.peers]
       /\ accepted' = [accepted EXCEPT ![n] = st.acc]
       /\ cbRuns' = CountRuns(n, m.id, (IF st.ranDef THEN 1 ELSE 0) + (IF st.ranCus THEN 1 ELSE 0))
       /\ lastCb' = IF st.ranDef \/ st.ranCus
                    THEN [node |-> n, id |-> m.id, had |-> m.id \in Ids(msgBuffer[n]),
                          ranDef |-> st.ranDef, def |-> st.def,
                          ranCus |-> st.ranCus, cus |-> st.cus]
                    ELSE lastCb

(***************************************************************************)
(* Inbound request handlers.                                               *)
(***************************************************************************)
gossipHandler_NoSolicitation(req) ==
    /\ req \in net /\ req.kind = "gossip" /\ Serving(req.to)
    /\ net' = net \ {req}
    /\ UNCHANGED <<msgBuffer, peerBuffer, gossipRound, syncing, nextID, created,
                   accepted, lastCb, lastDrop, cbRuns>>
    /\ UNCHANGED <<lifeVars, regVars>>

gossipHandler_AdoptsRound(req) ==
    /\ req \in net /\ req.kind = "gossip" /\ Serving(req.to)
    /\ LET msgDigestBuffer == DigestBuffer(msgBuffer[req.to])
           missingDigestBuffer == GetMissingDigests(req.digests, msgDigestBuffer)
       IN IF Len(missingDigestBuffer) > 0
          THEN net' = (net \ {req}) \cup
                   {HTTPSolicitation(req.addr, req.to, req.round, missingDigestBuffer)}
          ELSE net' = net \ {req}
    /\ gossipRound' = [gossipRound EXCEPT ![req.to] = req.round]
    /\ UNCHANGED <<msgBuffer, peerBuffer, syncing, nextID, created, accepted, lastCb, lastDrop, cbRuns>>
    /\ UNCHANGED <<lifeVars, regVars>>

gossipHandler_SolicitsAll(req) ==
    /\ req \in net /\ req.kind = "gossip" /\ Serving(req.to)
    /\ IF Len(req.digests) > 0
       THEN net' = (net \ {req}) \cup
                {HTTPSolicitation(req.addr, req.to, req.round, req.digests)}
       ELSE net' = net \ {req}
    /\ UNCHANGED <<msgBuffer, peerBuffer, gossipRound, syncing, nextID, created,
                   accepted, lastCb, lastDrop, cbRuns>>
    /\ UNCHANGED <<lifeVars, regVars>>

gossipHandler_LearnsSender(req) ==
    /\ req \in net /\ req.kind = "gossip" /\ Serving(req.to)
    /\ LET msgDigestBuffer == DigestBuffer(msgBuffer[req.to])
           missingDigestBuffer == GetMissingDigests(req.digests, msgDigestBuffer)
       IN IF Len(missingDigestBuffer) > 0
          THEN net' = (net \ {req}) \cup
                   {HTTPSolicitation(req.addr, req.to, req.round, missingDigestBuffer)}
          ELSE net' = net \ {req}
    /\ peerBuffer' = [peerBuffer EXCEPT ![req.to] = @ \cup {req.addr}]
    /\ UNCHANGED <<msgBuffer, gossipRound, syncing, nextID, created,
                   accepted, lastCb, lastDrop, cbRuns>>
    /\ UNCHANGED <<lifeVars, regVars>>

gossipHandler(req) ==
    /\ req \in net /\ req.kind = "gossip" /\ Serving(req.to)
    /\ LET msgDigestBuffer == DigestBuffer(msgBuffer[req.to])
           missingDigestBuffer == GetMissingDigests(req.digests, msgDigestBuffer)
       IN IF Len(missingDigestBuffer) > 0
          THEN net' = (net \ {req}) \cup
                   {HTTPSolicitation(req.addr, req.to, req.round, missingDigestBuffer)}
          ELSE net' = net \ {req}
    /\ UNCHANGED <<msgBuffer, peerBuffer, gossipRound, syncing, nextID, created,
                   accepted, lastCb, lastDrop, cbRuns>>
    /\ UNCHANGED <<lifeVars, regVars>>

solicitationHandler_SkipsEmpty(req) ==
    /\ req \in net /\ req.kind = "solicitation" /\ Serving(req.to)
    /\ LET missingMsgBuffer == GetMissingMessageBuffer(req.digests, msgBuffer[req.to])
       IN IF Len(missingMsgBuffer) > 0
          THEN net' = (net \ {req}) \cup
                   {HTTPSynchronization(req.addr, req.to, missingMsgBuffer)}
          ELSE net' = net \ {req}
    /\ UNCHANGED <<msgBuffer, peerBuffer, gossipRound, syncing, nextID, created,
                   accepted, lastCb, lastDrop, cbRuns>>
    /\ UNCHANGED <<lifeVars, regVars>>

solicitationHandler_FromDigests(req) ==
    /\ req \in net /\ req.kind = "solicitation" /\ Serving(req.to)
    /\ LET held == SelectSeq(req.digests, LAMBDA d : d.id \in Ids(msgBuffer[req.to]))
           missingMsgBuffer == [i \in DOMAIN held |-> NewMessage(held[i].id, "", held[i].cbType)]
       IN net' = (net \ {req}) \cup
                   {HTTPSynchronization(req.addr, req.to, missingMsgBuffer)}
    /\ UNCHANGED <<msgBuffer, peerBuffer, gossipRound, syncing, nextID, created,
                   accepted, lastCb, lastDrop, cbRuns>>
    /\ UNCHANGED <<lifeVars, regVars>>

solicitationHandler(req) ==
    /\ req \in net /\ req.kind = "solicitation" /\ Serving(req.to)
    /\ LET missingMsgBuffer == GetMissingMessageBuffer(req.digests, msgBuffer[req.to])
       IN net' = (net \ {req}) \cup
                   {HTTPSynchronization(req.addr, req.to, missingMsgBuffer)}
    /\ UNCHANGED <<msgBuffer, peerBuffer, gossipRound, syncing, nextID, created,
                   accepted, lastCb, lastDrop, cbRuns>>
    /\ UNCHANGED <<lifeVars, regVars>>

\* the handler receives the request and runs its loop for the first message
synchronizationHandler(req) ==
    /\ req \in net /\ req.kind = "synchronization" /\ Serving(req.to)
    /\ net' = net \ {req}
    /\ IF req.msgs = <<>>
       THEN UNCHANGED <<msgBuffer, peerBuffer, accepted, lastCb, cbRuns, syncing>>
       ELSE /\ \E o \in Outcomes(Head(req.msgs)) :
                  applySync(req.to, Head(req.msgs), o[1], o[2])
            /\ syncing' = IF Tail(req.msgs) = <<>> THEN syncing
                          ELSE syncing \cup {[node |-> req.to, msgs |-> Tail(req.msgs)]}
    /\ UNCHANGED <<gossipRound, nextID, created, lastDrop>>
    /\ UNCHANGED <<lifeVars, regVars>>

\* a handler already in its loop handles its next message
syncLoop(h) ==
    /\ h \in syncing /\ ~crashed[h.node]
    /\ \E o \in Outcomes(Head(h.msgs)) : applySync(h.node, Head(h.msgs), o[1], o[2])
    /\ syncing' = IF Tail(h.msgs) = <<>> THEN syncing \ {h}
                  ELSE (syncing \ {h}) \cup {[node |-> h.node, msgs |-> Tail(h.msgs)]}
    /\ UNCHANGED <<gossipRound, net, nextID, created, lastDrop>>
    /\ UNCHANGED <<lifeVars, regVars>>

decodeError_NoReturn(req) ==
    /\ req \in net /\ Serving(req.to)
    /\ net' = IF req.kind = "solicitation"
              THEN (net \ {req}) \cup {HTTPSynchronization(req.addr, req.to, <<>>)}
              ELSE net \ {req}
    /\ lastDrop' = [kind |-> req.kind, node |-> req.to, round |-> gossipRound[req.addr]]
    /\ UNCHANGED <<msgBuffer, peerBuffer, gossipRound, syncing, nextID, created,
                   accepted, lastCb, cbRuns>>
    /\ UNCHANGED <<lifeVars, regVars>>

\* decoding the request fails: the handler logs the error and returns
decodeError(req) ==
    /\ req \in net /\ Serving(req.to)
    /\ net' = net \ {req}
    /\ lastDrop' = [kind |-> req.kind, node |-> req.to, round |-> gossipRound[req.addr]]
    /\ UNCHANGED <<msgBuffer, peerBuffer, gossipRound, syncing, nextID, created,
                   accepted, lastCb, cbRuns>>
    /\ UNCHANGED <<lifeVars, regVars>>

\* the receiver does not listen: the sender's POST fails and is logged
refuseRequest(req) ==
    /\ req \in net /\ ~Serving(req.to)
    /\ net' = net \ {req}
    /\ UNCHANGED <<msgBuffer, peerBuffer, gossipRound, syncing, nextID, created,
                   accepted, lastCb, lastDrop, cbRuns>>
    /\ UNCHANGED <<lifeVars, regVars>>

(***************************************************************************)
(* Gossip scheduler.                                                       *)
(***************************************************************************)
\* ceil(beta * ln(n + 1)) for beta = 0.5
Fanout(n) == IF n = 0 THEN 0 ELSE IF n <= 6 THEN 1 ELSE 2

RECURSIVE SumRounds(_)
SumRounds(S) ==
    IF S = {} THEN 0
    ELSE LET n == CHOOSE x \in S : TRUE IN gossipRound[n] + SumRounds(S \ {n})

\* messages created and rounds run so far
Events == nextID + SumRounds(Nodes)

SchedulerRunning(n) == ~crashed[n] /\ \E c \in Chans : schedG[n][c] = "running"

\* one round of node n's scheduler; withinBound bounds the rounds of the run
Round(n, withinBound) ==
    /\ SchedulerRunning(n)
    /\ withinBound
    /\ gossipRound' = [gossipRound EXCEPT ![n] = @ + 1]
    /\ \E S \in SUBSET peerBuffer[n] :
          /\ Cardinality(S) = Fanout(Cardinality(peerBuffer[n]))
          /\ net' = net \cup {HTTPGossip(p, n, gossipRound'[n], DigestBuffer(msgBuffer[n])) : p \in S}
    /\ UNCHANGED <<msgBuffer, peerBuffer, syncing, nextID, created, accepted, lastCb, lastDrop, cbRuns>>
    /\ UNCHANGED <<lifeVars, regVars>>

Tick(n) == Round(n, Events < MaxEvents)

(***************************************************************************)
(* Node-level calls.                                                       *)
(***************************************************************************)
BmmcAddMessage_PayloadID(n, msg, cbType) ==
    /\ ~crashed[n]
    /\ Events < MaxEvents
    /\ nextID' = nextID + 1
    /\ LET m == NewMessage(1, msg, cbType)
       IN /\ msgBuffer' = [msgBuffer EXCEPT ![n] = AddMessage(@, m)]
          /\ created' = created \cup {[node |-> n, m |-> m, call |-> nextID + 1]}
    /\ UNCHANGED <<peerBuffer, gossipRound, net, syncing, accepted, lastCb, lastDrop, cbRuns>>
    /\ UNCHANGED <<lifeVars, regVars>>

BmmcAddMessage(n, msg, cbType) ==
    /\ ~crashed[n]
    /\ Events < MaxEvents
    /\ nextID' = nextID + 1
    /\ LET m == NewMessage(nextID + 1, msg, cbType)
       IN /\ msgBuffer' = [msgBuffer EXCEPT ![n] = AddMessage(@, m)]
          /\ created' = created \cup {[node |-> n, m |-> m, call |-> nextID + 1]}
    /\ UNCHANGED <<peerBuffer, gossipRound, net, syncing, accepted, lastCb, lastDrop, cbRuns>>
    /\ UNCHANGED <<lifeVars, regVars>>

\* AddPeer adds the peer to the local peer buffer and posts an ADDPEER
\* message with the peer as payload
BmmcAddPeer(n, p, withinBound) ==
    /\ ~crashed[n]
    /\ withinBound
    /\ nextID' = nextID + 1
    /\ peerBuffer' = [peerBuffer EXCEPT ![n] = @ \cup {p}]
    /\ LET m == NewMessage(nextID + 1, p, ADDPEER)
       IN /\ msgBuffer' = [msgBuffer EXCEPT ![n] = AddMessage(@, m)]
          /\ created' = created \cup {[node |-> n, m |-> m, call |-> nextID + 1]}
    /\ UNCHANGED <<gossipRound, net, syncing, accepted, lastCb, lastDrop, cbRuns>>
    /\ UNCHANGED <<lifeVars, regVars>>

(***************************************************************************)
(* The general specification: N1 and N2 were started once, know each       *)
(* other and serve requests; N3 is constructed and never started.          *)
(***************************************************************************)
StartedOnce(S, v) ==
    [n \in Nodes |-> [c \in Chans |-> IF n \in S /\ c = 1 THEN v ELSE "none"]]

AppRegistry == [t \in CustomTypes |-> IF t = "review" THEN "reject" ELSE "free"]

\* the nodes of S run (server bound, scheduler of the nodes of T launched)
Running(S, T) ==
    /\ http = [n \in Nodes |-> IF n \in S THEN "serving" ELSE "idle"]
    /\ stop = [n \in Nodes |-> IF n \in S THEN 1 ELSE 0]
    /\ closed = [n \in Nodes |-> {}]
    /\ serverG = StartedOnce(S, "serving")
    /\ watcherG = StartedOnce(S, "waiting")
    /\ schedG = StartedOnce(T, "running")
    /\ startErr = StartedOnce(S, "nil")
    /\ crashed = [n \in Nodes |-> FALSE]

Configured ==
    /\ cfgCallbacks = [isNil |-> FALSE, cb |-> AppRegistry]
    /\ customRegistry = AppRegistry
    /\ regErr = "nil"
    /\ validateErr = "nil"

Quiet ==
    /\ gossipRound = [n \in Nodes |-> 0]
    /\ net = {}
    /\ syncing = {}
    /\ accepted = [n \in Nodes |-> {}]
    /\ lastCb = NoDispatch
    /\ lastDrop = NoDrop
    /\ cbRuns = <<>>

Init ==
    /\ msgBuffer = [n \in Nodes |-> <<>>]
    /\ peerBuffer = [n \in Nodes |-> IF n \in Pair THEN Pair \ {n} ELSE {}]
    /\ nextID = 0
    /\ created = {}
    /\ Quiet
    /\ Running(Pair, Pair)
    /\ Configured

Next ==
    \/ \E n \in Pair, t \in {NOCALLBACK, GhostType} \cup CustomTypes :
          BmmcAddMessage(n, "hello", t)
    \/ \E n \in Nodes : Tick(n)
    \/ \E req \in net : gossipHandler(req)
    \/ \E req \in net : solicitationHandler(req)
    \/ \E req \in net : synchronizationHandler(req)
    \/ \E h \in syncing : syncLoop(h)
    \/ \E req \in net : decodeError(req)

Spec == Init /\ [][Next]_vars

(***************************************************************************)
(* Two-node convergence (the gossip server's unit test): N1 and N2 serve   *)
(* requests and know each other, N1 holds one plain message, N2 none.      *)
(* N1 runs a scheduler; N2 may or may not.  No request is lost.            *)
(***************************************************************************)
FirstMessage == NewMessage(1, "hello", NOCALLBACK)

ConvInit ==
    /\ msgBuffer = [n \in Nodes |-> IF n = "N1" THEN <<FirstMessage>> ELSE <<>>]
    /\ peerBuffer = [n \in Nodes |-> IF n \in Pair THEN Pair \ {n} ELSE {}]
    /\ nextID = 1
    /\ created = {[node |-> "N1", m |-> FirstMessage, call |-> 1]}
    /\ Quiet
    /\ \E T \in {{"N1"}, Pair} : Running(Pair, T)
    /\ Configured

ConvTick(n) == Round(n, gossipRound[n] < ConvRounds)

ConvNext ==
    \/ \E n \in Nodes : ConvTick(n)
    \/ \E req \in net : gossipHandler(req)
    \/ \E req \in net : solicitationHandler(req)
    \/ \E req \in net : synchronizationHandler(req)

\* every runnable goroutine (scheduler, handler) is eventually scheduled
ConvSpec == ConvInit /\ [][ConvNext]_vars /\ WF_vars(ConvNext)

SameMessages(a, b) == Ids(a) = Ids(b)

\* C1: with no request lost, N2's message buffer eventually holds the same
\* message ids as N1's, and keeps holding them.
C1_Convergence == <>[](SameMessages(msgBuffer["N1"], msgBuffer["N2"]))

\* N2 received N1's message by synchronization although only N1 gossips
C1_Witness ==
    /\ msgBuffer["N2"] = <<FirstMessage>>
    /\ schedG["N2"][1] = "none"
    /\ gossipRound["N1"] > 0

(***************************************************************************)
(* Claims checked under Spec.                                              *)
(***************************************************************************)
Messages(n) == {msgBuffer[n][i] : i \in DOMAIN msgBuffer[n]}

\* the local calls made on node n, and the messages they created
LocalCalls(n) == {c \in created : c.node = n}
CreatedAt(n) == {c.m : c \in LocalCalls(n)}

\* C2: a message with a callback type that a node holds without having
\* created it was accepted (ok=true) by a callback on that node; a message
\* whose custom callback always returns (false, nil) is held by its creator
\* only.
C2_CallbackGating ==
    \A n \in Nodes : \A m \in Messages(n) :
        /\ (m.cbType # NOCALLBACK /\ m \notin CreatedAt(n)) => m.id \in accepted[n]
        /\ (m.cbType \in DOMAIN customRegistry /\ customRegistry[m.cbType] = "reject")
              => m \in CreatedAt(n)

\* a peer ran the rejecting callback for a gossiped message and does not hold
\* it, and holds another message its callback accepted
C2_Witness ==
    \E m \in Messages("N1") :
        /\ m.cbType = "review"
        /\ lastCb.node = "N2" /\ lastCb.id = m.id /\ lastCb.ranCus /\ ~lastCb.cus.ok
        /\ m \notin Messages("N2")
        /\ \E a \in Messages("N2") : a.cbType = "audit" /\ a.id \in accepted["N2"]

\* the plain messages with payload "hello" node n created
PlainCalls(n) == {c \in LocalCalls(n) : c.m.cbType = NOCALLBACK /\ c.m.msg = "hello"}

\* C3 as stated: two node-level AddMessage calls with the same payload leave
\* one more message in the buffer (here: in a buffer that was empty).
C3_TwoCallsAddOne ==
    \A n \in Nodes :
        (Cardinality(PlainCalls(n)) = 2 /\ Messages(n) \subseteq CreatedAt(n))
            => Len(msgBuffer[n]) = 1

\* C3 amended: every node-level AddMessage call leaves a message of its own
\* in the buffer (two calls with the same payload: two messages), while the
\* buffer's AddMessage of a message it already holds changes nothing.
C3_EachCallAddsOne ==
    \A n \in Nodes :
        /\ Len(SelectSeq(msgBuffer[n], LAMBDA m : m \in CreatedAt(n)))
              = Cardinality(LocalCalls(n))
        /\ \A m \in Messages(n) : AddMessage(msgBuffer[n], m) = msgBuffer[n]

C3_Witness ==
    /\ Cardinality(PlainCalls("N1")) = 2
    /\ Len(msgBuffer["N1"]) = 2

\* C4: no two entries of a node's message buffer share an id.
C4_UniqueIds ==
    \A n \in Nodes : \A i, j \in DOMAIN msgBuffer[n] :
        i # j => msgBuffer[n][i].id # msgBuffer[n][j].id

\* a second synchronization delivered a message the node already held, and
\* its callback accepted it again
C4_Witness ==
    /\ lastCb.node \in Nodes
    /\ lastCb.had /\ lastCb.ranCus /\ lastCb.cus.ok
    /\ lastCb.id \in Ids(msgBuffer[lastCb.node])

\* some matched callback of the latest dispatch returned ok=true
LastAccepted ==
    \/ lastCb.ranDef /\ lastCb.def.ok
    \/ lastCb.ranCus /\ lastCb.cus.ok

\* C7: after a dispatch in which a matched callback returned ok=true the
\* message is in the buffer, with or without an error; after one in which
\* the matched callback returned ok=false the message is not in the buffer
\* (unless it was there before), with or without an error.
C7_OkDecidesInsertion ==
    lastCb.node \in Nodes =>
        /\ LastAccepted => lastCb.id \in Ids(msgBuffer[lastCb.node])
        /\ (~LastAccepted /\ ~lastCb.had) => lastCb.id \notin Ids(msgBuffer[lastCb.node])

\* a callback returned (true, error) for a new message, which is in the buffer
C7_Witness ==
    /\ lastCb.node \in Nodes
    /\ lastCb.ranCus /\ lastCb.cus.ok /\ lastCb.cus.err /\ ~lastCb.had
    /\ lastCb.id \in Ids(msgBuffer[lastCb.node])

IsPrefix(a, b) == Len(a) <= Len(b) /\ \A i \in DOMAIN a : a[i] = b[i]

\* C10: no step removes or replaces a message of a message buffer.
C10_NeverDestroyed ==
    [][\A n \in Nodes : IsPrefix(msgBuffer[n], msgBuffer'[n])]_vars

\* a node holds a message it got by synchronization, and a later callback
\* for that message returned ok=false
C10_Witness ==
    /\ lastCb.node \in Nodes
    /\ lastCb.had /\ lastCb.ranCus /\ ~lastCb.cus.ok
    /\ lastCb.id \in Ids(msgBuffer[lastCb.node])

(***************************************************************************)
(* The custom callback registry.  A callback map is [isNil, cb]: cb maps   *)
(* each registered type to what its function may return.                   *)
(***************************************************************************)
NilMap == [isNil |-> TRUE, cb |-> <<>>]
MapOf(S, behaviour) == [isNil |-> FALSE, cb |-> [t \in S |-> behaviour]]

NewCustomRegistry(cb) ==
    IF cb.isNil THEN [registry |-> <<>>, err |-> "errNilCallbackMap"]
    ELSE [registry |-> cb.cb, err |-> "nil"]

ValidateCustomCallbacks_AcceptAll(customCallbacks) == "nil"

ValidateCustomCallbacks(customCallbacks) ==
    IF \E customType \in DOMAIN customCallbacks.cb : customType \in defaultCallbacks
    THEN "errNotAlowedCallbackType"
    ELSE "nil"

callValidateCustomCallbacks ==
    /\ validateErr = "unset"
    /\ validateErr' = ValidateCustomCallbacks(cfgCallbacks)
    /\ UNCHANGED <<cfgCallbacks, customRegistry, regErr>>
    /\ UNCHANGED <<protoVars, lifeVars>>

callNewCustomRegistry ==
    /\ regErr = "unset"
    /\ LET r == NewCustomRegistry(cfgCallbacks)
       IN /\ customRegistry' = r.registry
          /\ regErr' = r.err
    /\ UNCHANGED <<cfgCallbacks, validateErr>>
    /\ UNCHANGED <<protoVars, lifeVars>>

\* the node exists: its constructor validated the configuration and built
\* the registry, and neither failed
NodeConstructed == validateErr = "nil" /\ regErr = "nil"

(***************************************************************************)
(* Node lifecycle.  A channel is named by the number of the Start() call   *)
(* that made it.                                                           *)
(***************************************************************************)
\* (*Server).Start launches the server goroutine and the goroutine waiting
\* for the stop signal, and returns nil without reading errChan
ServerStart(n, c) ==
    /\ serverG' = [serverG EXCEPT ![n][c] = "starting"]
    /\ watcherG' = [watcherG EXCEPT ![n][c] = "waiting"]

ServerStartResult == "nil"

BmmcStart(n) ==
    /\ ~crashed[n]
    /\ NodeConstructed
    /\ stop[n] < MaxStarts
    /\ LET c == stop[n] + 1
       IN /\ stop' = [stop EXCEPT ![n] = c]
          /\ ServerStart(n, c)
          /\ IF ServerStartResult # "nil"
             THEN /\ startErr' = [startErr EXCEPT ![n][c] = ServerStartResult]
                  /\ UNCHANGED schedG
             ELSE /\ startErr' = [startErr EXCEPT ![n][c] = "nil"]
                  /\ schedG' = [schedG EXCEPT ![n][c] = "running"]
    /\ UNCHANGED <<http, closed, crashed>>
    /\ UNCHANGED <<protoVars, regVars>>

\* close(b.stop) panics on a nil channel and on a closed one
BmmcStop(n) ==
    /\ ~crashed[n]
    /\ NodeConstructed
    /\ IF stop[n] = 0 \/ stop[n] \in closed[n]
       THEN /\ crashed' = [crashed EXCEPT ![n] = TRUE]
            /\ UNCHANGED closed
       ELSE /\ closed' = [closed EXCEPT ![n] = @ \cup {stop[n]}]
            /\ UNCHANGED crashed
    /\ UNCHANGED <<http, stop, serverG, watcherG, schedG, startErr>>
    /\ UNCHANGED <<protoVars, regVars>>

\* the server goroutine: ListenAndServe binds and serves, or returns at once
\* (ErrServerClosed after a Shutdown, an error when the port cannot be
\* bound); after it returns the goroutine waits to send on errChan
startServer(n, c) ==
    /\ ~crashed[n]
    /\ serverG[n][c] = "starting"
    /\ \E bindOk \in BOOLEAN :
          IF http[n] = "closed"
          THEN /\ serverG' = [serverG EXCEPT ![n][c] = "returnedNil"]
               /\ UNCHANGED http
          ELSE IF http[n] = "idle" /\ bindOk
          THEN /\ serverG' = [serverG EXCEPT ![n][c] = "serving"]
               /\ http' = [http EXCEPT ![n] = "serving"]
          ELSE /\ serverG' = [serverG EXCEPT ![n][c] = "bindFailed"]
               /\ UNCHANGED http
    /\ UNCHANGED <<stop, closed, watcherG, schedG, startErr, crashed>>
    /\ UNCHANGED <<protoVars, regVars>>

gracefullyShutdown_Nothing(n) ==
    /\ UNCHANGED http
    /\ UNCHANGED serverG

\* server.Shutdown: the listener closes, ListenAndServe returns
\* ErrServerClosed and the server cannot serve again
gracefullyShutdown(n) ==
    /\ http' = [http EXCEPT ![n] = "closed"]
    /\ serverG' = [serverG EXCEPT ![n] =
                      [c \in Chans |-> IF serverG[n][c] = "serving"
                                       THEN "returnedNil" ELSE serverG[n][c]]]

\* the goroutine of (*Server).Start that waits for the stop signal
shutdownWatcher(n, c) ==
    /\ ~crashed[n]
    /\ watcherG[n][c] = "waiting"
    /\ c \in closed[n]
    /\ gracefullyShutdown(n)
    /\ watcherG' = [watcherG EXCEPT ![n][c] = "done"]
    /\ UNCHANGED <<stop, closed, schedG, startErr, crashed>>
    /\ UNCHANGED <<protoVars, regVars>>

\* the scheduler loop observes the stop signal between two rounds
schedulerExit(n, c) ==
    /\ ~crashed[n]
    /\ schedG[n][c] = "running"
    /\ c \in closed[n]
    /\ schedG' = [schedG EXCEPT ![n][c] = "exited"]
    /\ UNCHANGED <<http, stop, closed, serverG, watcherG, startErr, crashed>>
    /\ UNCHANGED <<protoVars, regVars>>

(***************************************************************************)
(* The lifecycle scenario: N1 is configured, constructed, started and      *)
(* stopped, in any order of calls; its peer N2 runs, holds one plain       *)
(* message and gossips.                                                    *)
(***************************************************************************)
CallbackConfigs ==
    {NilMap, MapOf({}, "free"), MapOf({"review"}, "reject"), MapOf({ADDPEER}, "free"),
     MapOf({REMOVEPEER, "audit"}, "free"), MapOf({NOCALLBACK}, "free")}

LifeInit ==
    /\ msgBuffer = [n \in Nodes |-> IF n = "N2" THEN <<FirstMessage>> ELSE <<>>]
    /\ peerBuffer = [n \in Nodes |-> IF n \in Pair THEN Pair \ {n} ELSE {}]
    /\ nextID = 1
    /\ created = {[node |-> "N2", m |-> FirstMessage, call |-> 1]}
    /\ Quiet
    /\ Running({"N2"}, {"N2"})
    /\ cfgCallbacks \in CallbackConfigs
    /\ customRegistry = <<>>
    /\ regErr = "unset"
    /\ validateErr = "unset"

LifeTick(n) == Round(n, Events < LifeEvents)

LifeNext ==
    \/ callValidateCustomCallbacks
    \/ callNewCustomRegistry
    \/ BmmcStart("N1")
    \/ BmmcStop("N1")
    \/ \E c \in Chans : startServer("N1", c)
    \/ \E c \in Chans : shutdownWatcher("N1", c)
    \/ \E c \in Chans : schedulerExit("N1", c)
    \/ \E n \in Nodes : LifeTick(n)
    \/ \E req \in net : gossipHandler(req)
    \/ \E req \in net : solicitationHandler(req)
    \/ \E req \in net : synchronizationHandler(req)
    \/ \E req \in net : refuseRequest(req)

LifeSpec == LifeInit /\ [][LifeNext]_vars

HasReserved(customCallbacks) ==
    \E t \in DOMAIN customCallbacks.cb : t \in defaultCallbacks

C6_BindErrorSurfaced ==
    \A n \in Nodes, c \in Chans :
        serverG[n][c] = "bindFailed" =>
            (startErr[n][c] # "nil" /\ schedG[n][c] = "none")

(***************************************************************************)
(* Membership propagation: N1 knows {N2}, N2 knows {N1, N3}, N3 knows      *)
(* nobody; all three run.  N1 calls AddPeer(N3).  No request is lost.      *)
(***************************************************************************)
MemberInit ==
    /\ msgBuffer = [n \in Nodes |-> <<>>]
    /\ peerBuffer = [n \in Nodes |-> IF n = "N1" THEN {"N2"}
                                     ELSE IF n = "N2" THEN {"N1", "N3"} ELSE {}]
    /\ nextID = 0
    /\ created = {}
    /\ Quiet
    /\ Running(Nodes, Nodes)
    /\ Configured

MemberTick(n) == Round(n, Events < MemberEvents)

MemberNext ==
    \/ BmmcAddPeer("N1", "N3", Events < MemberEvents)
    \/ \E n \in Nodes : MemberTick(n)
    \/ \E req \in net : gossipHandler(req)
    \/ \E req \in net : solicitationHandler(req)
    \/ \E req \in net : synchronizationHandler(req)
    \/ \E h \in syncing : syncLoop(h)

MemberSpec == MemberInit /\ [][MemberNext]_vars

\* AddPeer was called, every exchange has ended and all nodes hold the same
\* messages
Converged ==
    /\ nextID > 0
    /\ net = {} /\ syncing = {}
    /\ \A n \in Nodes : SameMessages(msgBuffer[n], msgBuffer["N1"])

\* C8 as stated: once the nodes have converged, N3's peer buffer contains
\* N1 and N2.
C8_PeerLearnsNetwork == Converged => {"N1", "N2"} \subseteq peerBuffer["N3"]

\* C8 amended: a node that holds the ADDPEER message has the added peer (the
\* payload, N3) in its peer buffer; N3's peer buffer never contains N1 or N2.
C8_PeerLearnsPayload ==
    /\ \A n \in Nodes : \A m \in Messages(n) :
          m.cbType = ADDPEER => m.msg \in peerBuffer[n]
    /\ peerBuffer["N3"] \subseteq {"N3"}

\* the nodes converged on N1's ADDPEER message and N3 knows only itself
C8_Witness ==
    /\ Converged
    /\ peerBuffer["N3"] = {"N3"}
    /\ lastCb.ranDef /\ lastCb.def.ok

(***************************************************************************)
(* The stop scenario: N1 was constructed and is started and stopped; its   *)
(* peer N2 runs, holds one plain message and gossips.                      *)
(***************************************************************************)
StopInit ==
    /\ msgBuffer = [n \in Nodes |-> IF n = "N2" THEN <<FirstMessage>> ELSE <<>>]
    /\ peerBuffer = [n \in Nodes |-> IF n \in Pair THEN Pair \ {n} ELSE {}]
    /\ nextID = 1
    /\ created = {[node |-> "N2", m |-> FirstMessage, call |-> 1]}
    /\ Quiet
    /\ Running({"N2"}, {"N2"})
    /\ Configured

StopNext ==
    \/ stop["N1"] < StopStarts /\ BmmcStart("N1")
    \/ BmmcStop("N1")
    \/ \E c \in Chans : startServer("N1", c)
    \/ \E c \in Chans : shutdownWatcher("N1", c)
    \/ \E c \in Chans : schedulerExit("N1", c)
    \/ \E n \in Nodes : LifeTick(n)
    \/ \E req \in net : gossipHandler(req)
    \/ \E req \in net : solicitationHandler(req)
    \/ \E req \in net : synchronizationHandler(req)
    \/ \E req \in net : refuseRequest(req)

\* every goroutine that can run is eventually scheduled; the calls made on
\* the node (Start, Stop) are the caller's choice
StopFairness ==
    /\ \A c \in Chans : WF_vars(startServer("N1", c))
    /\ \A c \in Chans : WF_vars(shutdownWatcher("N1", c))
    /\ \A c \in Chans : WF_vars(schedulerExit("N1", c))

StopSpec == StopInit /\ [][StopNext]_vars /\ StopFairness

\* C9: once a stop channel is closed, the scheduler loop started with it
\* exits, the goroutine waiting on it shuts the HTTP server down, and the
\* server serves no further request (unless the process has panicked).
C9_StopObserved ==
    \A c \in Chans :
        (c \in closed["N1"]) ~>
            (\/ crashed["N1"]
             \/ /\ schedG["N1"][c] = "exited"
                /\ watcherG["N1"][c] = "done"
                /\ [](http["N1"] = "closed" /\ ~Serving("N1")))

\* N1 served and gossiped, was stopped, and both activities have ended
C9_Witness ==
    /\ 1 \in closed["N1"] /\ ~crashed["N1"]
    /\ gossipRound["N1"] > 0
    /\ schedG["N1"][1] = "exited"
    /\ watcherG["N1"][1] = "done"
    /\ serverG["N1"][1] = "returnedNil"
    /\ http["N1"] = "closed"

(***************************************************************************)
(* Further claims checked under Spec.                                      *)
(***************************************************************************)
\* a step in which an inbound request handler ran
HandlerStep == net \ net' # {} \/ syncing # syncing'

\* C11: every round counter starts at 0; a step leaves it alone or adds one
\* to the counter of one node, and that step is a scheduler round (it sends
\* gossip stamped with the new number and handles no request); a step of an
\* inbound request handler leaves every counter unchanged.
C11_MonotoneRound ==
    /\ \A n \in Nodes : gossipRound[n] = 0
    /\ [][/\ \A n \in Nodes : gossipRound'[n] \in {gossipRound[n], gossipRound[n] + 1}
          /\ \A n, k \in Nodes :
                (gossipRound'[n] # gossipRound[n] /\ gossipRound'[k] # gossipRound[k])
                    => n = k
          /\ HandlerStep => gossipRound' = gossipRound
          /\ \A req \in net' \ net :
                req.kind = "gossip" =>
                    /\ gossipRound'[req.addr] = gossipRound[req.addr] + 1
                    /\ req.round = gossipRound'[req.addr]]_vars

\* a node ran two rounds and, in between or after, handled a synchronization
C11_Witness ==
    \E n \in Pair :
        /\ gossipRound[n] = 2
        /\ \E m \in Messages(n) : m \notin CreatedAt(n)
\* the digests of a digest buffer, as a set
DigestSet(digests) == {digests[i] : i \in DOMAIN digests}

\* the digests a gossip request advertises and its receiver does not hold
MissingAt(req) == {d \in DigestSet(req.digests) : d.id \notin Ids(msgBuffer[req.to])}

\* C12: a step of the gossip handler sends nothing when the receiver holds
\* every advertised id; otherwise it sends exactly one solicitation, to the
\* sender, from the receiver, with the sender's round and with exactly the
\* advertised digests whose ids the receiver does not hold.
C12_GossipHandling ==
    [][\A req \in net :
          gossipHandler(req) =>
              IF MissingAt(req) = {}
              THEN net' = net \ {req}
              ELSE \E sol \in net' :
                      /\ net' = (net \ {req}) \cup {sol}
                      /\ sol.kind = "solicitation"
                      /\ sol.to = req.addr
                      /\ sol.addr = req.to
                      /\ sol.round = req.round
                      /\ DigestSet(sol.digests) = MissingAt(req)
                      /\ Len(sol.digests) = Cardinality(MissingAt(req))]_vars

\* a solicitation is in flight that asks for one message while its sender
\* already shares another message with the gossiping node
C12_Witness ==
    \E sol \in net :
        /\ sol.kind = "solicitation"
        /\ Len(sol.digests) = 1
        /\ \E m \in Messages(sol.addr) : m \in Messages(sol.to)
        /\ \A d \in DigestSet(sol.digests) :
              d.id \in Ids(msgBuffer[sol.to]) /\ d.id \notin Ids(msgBuffer[sol.addr])
(***************************************************************************)
(* The single-request scenario: N1 and N2 serve and run no scheduler; N1   *)
(* holds any buffer of up to MaxReqLen of the messages that exist, and one *)
(* request of any kind and content, sent in N2's name, is in flight.       *)
(***************************************************************************)
\* the messages that exist: two plain ones, one with a registered custom
\* callback, one with a type registered nowhere
Universe ==
    {NewMessage(1, "hello", NOCALLBACK), NewMessage(2, "hello", NOCALLBACK),
     NewMessage(3, "hello", "audit"), NewMessage(4, "hello", GhostType)}

\* sequences over S of length at most MaxReqLen
SeqsUpTo(S) == UNION {[1..k -> S] : k \in 0..MaxReqLen}

\* message buffers: no id twice
Buffers == {b \in SeqsUpTo(Universe) : \A i, j \in DOMAIN b : i # j => b[i].id # b[j].id}

Requests ==
    {HTTPGossip("N1", "N2", 1, DigestBuffer(b)) : b \in Buffers}
    \cup {HTTPSolicitation("N1", "N2", 1, DigestBuffer(b)) : b \in SeqsUpTo(Universe)}
    \cup {HTTPSynchronization("N1", "N2", b) : b \in SeqsUpTo(Universe)}

HandlerInit ==
    /\ msgBuffer \in {[n \in Nodes |-> IF n = "N1" THEN b ELSE <<>>] : b \in Buffers}
    /\ peerBuffer = [n \in Nodes |-> IF n \in Pair THEN Pair \ {n} ELSE {}]
    /\ nextID = Cardinality(Universe)
    /\ created = {[node |-> "N3", m |-> m, call |-> m.id] : m \in Universe}
    /\ gossipRound = [n \in Nodes |-> 0]
    /\ \E req \in Requests : net = {req}
    /\ syncing = {}
    /\ accepted = [n \in Nodes |-> {}]
    /\ lastCb = NoDispatch
    /\ lastDrop = NoDrop
    /\ cbRuns = <<>>
    /\ Running(Pair, {})
    /\ Configured

HandlerNext ==
    \/ \E req \in net : gossipHandler(req)
    \/ \E req \in net : solicitationHandler(req)
    \/ \E req \in net : synchronizationHandler(req)
    \/ \E h \in syncing : syncLoop(h)
    \/ \E req \in net : decodeError(req)

HandlerSpec == HandlerInit /\ [][HandlerNext]_vars

\* the messages of a buffer whose ids a solicitation asks for
WantedAt(req) ==
    {m \in Messages(req.to) : \E d \in DigestSet(req.digests) : d.id = m.id}

\* C13: a step of the solicitation handler sends exactly one synchronization,
\* to the sender, from the receiver, whose messages are the messages of the
\* receiver's buffer with a wanted id; it is sent when that list is empty too.
C13_SolicitationHandling ==
    [][\A req \in net :
          solicitationHandler(req) =>
              \E syn \in net' :
                  /\ net' = (net \ {req}) \cup {syn}
                  /\ syn.kind = "synchronization"
                  /\ syn.to = req.addr
                  /\ syn.addr = req.to
                  /\ {syn.msgs[i] : i \in DOMAIN syn.msgs} = WantedAt(req)]_vars

\* N1 answered a solicitation none of whose ids it holds: an empty
\* synchronization is in flight although its buffer is not empty
C13_Witness ==
    \E syn \in net :
        /\ syn.kind = "synchronization" /\ syn.addr = "N1" /\ syn.to = "N2"
        /\ syn.msgs = <<>>
        /\ Len(msgBuffer["N1"]) = MaxReqLen
\* what handling the plain message m at node n does: the message is appended
\* unless its id is held, and no callback runs
PlainHandled(n, m) ==
    /\ cbRuns' = cbRuns
    /\ msgBuffer'[n] = IF m.id \in Ids(msgBuffer[n]) THEN msgBuffer[n]
                       ELSE Append(msgBuffer[n], m)
    /\ lastCb' = lastCb
    /\ accepted' = accepted
    /\ peerBuffer' = peerBuffer

\* C14: the synchronization handler takes the messages of a request in the
\* order received (the first on receipt, then the head of what is left, the
\* rest staying in order), and a message with callback type NONE is inserted
\* unless its id is held, without any callback.
C14_PlainSynchronization ==
    [][/\ \A req \in net :
             (synchronizationHandler(req) /\ req.msgs # <<>>) =>
                 /\ Head(req.msgs).cbType = NOCALLBACK
                       => PlainHandled(req.to, Head(req.msgs))
                 /\ Len(req.msgs) > 1
                       => [node |-> req.to, msgs |-> Tail(req.msgs)] \in syncing'
       /\ \A h \in syncing :
             syncLoop(h) =>
                 /\ Head(h.msgs).cbType = NOCALLBACK
                       => PlainHandled(h.node, Head(h.msgs))
                 /\ Len(h.msgs) > 1
                       => [node |-> h.node, msgs |-> Tail(h.msgs)] \in syncing']_vars

\* N1 is inside a synchronization of two plain messages: the first received
\* is the last of its buffer, the second is still to be handled, and no
\* callback has run
C14_Witness ==
    \E h \in syncing :
        /\ h.node = "N1"
        /\ h.msgs = <<NewMessage(1, "hello", NOCALLBACK)>>
        /\ msgBuffer["N1"] # <<>>
        /\ msgBuffer["N1"][Len(msgBuffer["N1"])] = NewMessage(2, "hello", NOCALLBACK)
        /\ 1 \notin Ids(msgBuffer["N1"])
        /\ lastCb = NoDispatch
        /\ lastDrop = NoDrop
\* a callback type that is not NONE and is in neither callback table
Unmatched(cbType) ==
    /\ cbType # NOCALLBACK
    /\ cbType \notin defaultCallbacks
    /\ cbType \notin DOMAIN customRegistry

\* C15: a message whose callback type is matched by no table is held only
\* by the node that created it, and no callback ever ran for it.
C15_UnmatchedType ==
    /\ \A n \in Nodes : \A m \in Messages(n) :
          Unmatched(m.cbType) => m \in CreatedAt(n)
    /\ \A c \in created :
          (lastCb.node \in Nodes /\ lastCb.id = c.m.id) => ~Unmatched(c.m.cbType)
    /\ \A n \in Nodes : \A c \in created :
          c.m.id \in accepted[n] => ~Unmatched(c.m.cbType)

\* N1 created an unmatched message and then a plain one; N2 received both in
\* one synchronization and holds the plain one only
C15_Witness ==
    \E g \in CreatedAt("N1"), m \in CreatedAt("N1") :
        /\ Unmatched(g.cbType)
        /\ m.cbType = NOCALLBACK
        /\ g.id < m.id
        /\ m \in Messages("N2")
        /\ g \notin Messages("N2")
        /\ net = {} /\ syncing = {}
\* C16: a handler whose request fails to decode sends nothing, runs no
\* callback, starts no message loop and leaves the message buffers, the peer
\* buffers and the round counters as they were; the request is gone.
C16_DroppedHop ==
    [][\A req \in net :
          decodeError(req) =>
              /\ net' = net \ {req}
              /\ syncing' = syncing
              /\ msgBuffer' = msgBuffer
              /\ peerBuffer' = peerBuffer
              /\ gossipRound' = gossipRound
              /\ lastCb' = lastCb
              /\ cbRuns' = cbRuns
              /\ accepted' = accepted]_vars

\* N2 dropped the synchronization of N1's first round, and holds N1's only
\* message after the exchange of N1's second round
C16_Witness ==
    /\ lastDrop = [kind |-> "synchronization", node |-> "N2", round |-> 1]
    /\ gossipRound["N1"] = 2
    /\ nextID = 1
    /\ \E m \in CreatedAt("N1") : m \in Messages("N2")
\* the messages local calls created, on any node
Created == {c.m : c \in created}

\* C17: every message of every buffer is a message some local call created
\* (same id, payload and callback type); every message of a synchronization,
\* in flight or inside a handler's loop, is one its sender holds; every
\* digest of a solicitation is the digest of a message its receiver holds.
C17_NoFabrication ==
    /\ \A n \in Nodes : Messages(n) \subseteq Created
    /\ \A req \in net :
          /\ \A i \in DOMAIN req.msgs : req.msgs[i] \in Messages(req.addr)
          /\ req.kind = "solicitation" =>
                \A d \in DigestSet(req.digests) :
                    \E m \in Messages(req.to) : Digest(m) = d
    /\ \A h \in syncing : \A i \in DOMAIN h.msgs : h.msgs[i] \in Created

\* each of N1 and N2 holds a message the other created
C17_Witness ==
    /\ \E m \in CreatedAt("N1") : m \in Messages("N2")
    /\ \E m \in CreatedAt("N2") : m \in Messages("N1")
\* a step of the synchronization handler: it received a request or went on
\* with its loop
SyncStep ==
    \/ \E req \in net \ net' : req.kind = "synchronization"
    \/ syncing' # syncing

\* a step of a local call (AddMessage, AddPeer): it created a message
LocalStep == nextID' # nextID

\* C18: a step of the gossip handler or of the solicitation handler leaves
\* every message buffer and every peer buffer unchanged; a step that changes
\* one of them is a step of the synchronization handler or of a local call.
C18_ReadOnlyHops ==
    [][/\ \A req \in net :
             (gossipHandler(req) \/ solicitationHandler(req)) =>
                 (msgBuffer' = msgBuffer /\ peerBuffer' = peerBuffer)
       /\ (msgBuffer' # msgBuffer \/ peerBuffer' # peerBuffer) =>
             (SyncStep \/ LocalStep)]_vars

\* N3's buffers were changed by a synchronization, and a gossip and a
\* solicitation handled after that changed no buffer
C18_Witness ==
    /\ peerBuffer["N3"] = {"N3"}
    /\ msgBuffer["N3"] # <<>>
    /\ msgBuffer["N2"] = <<>>
    /\ peerBuffer["N2"] = {"N1", "N3"}
    /\ \E req \in net : req.kind = "synchronization" /\ req.to = "N2"
(***************************************************************************)
(* The repeated-delivery scenario: all three nodes serve; N1 created an    *)
(* "audit" message and knows N2 and N3, N2 created a "review" message and  *)
(* knows N3; N1 and N2 run schedulers.  No request is lost.                *)
(***************************************************************************)
AuditMessage == NewMessage(1, "hello", "audit")
ReviewMessage == NewMessage(2, "hello", "review")

RepeatInit ==
    /\ msgBuffer = [n \in Nodes |-> IF n = "N1" THEN <<AuditMessage>>
                                    ELSE IF n = "N2" THEN <<ReviewMessage>> ELSE <<>>]
    /\ peerBuffer = [n \in Nodes |-> IF n = "N1" THEN {"N2", "N3"}
                                     ELSE IF n = "N2" THEN {"N3"} ELSE {}]
    /\ nextID = 2
    /\ created = {[node |-> "N1", m |-> AuditMessage, call |-> 1],
                  [node |-> "N2", m |-> ReviewMessage, call |-> 2]}
    /\ Quiet
    /\ Running(Nodes, Pair)
    /\ Configured

RepeatTick(n) == Round(n, gossipRound[n] < RepeatRounds)

RepeatNext ==
    \/ \E n \in Nodes : RepeatTick(n)
    \/ \E req \in net : gossipHandler(req)
    \/ \E req \in net : solicitationHandler(req)
    \/ \E req \in net : synchronizationHandler(req)
    \/ \E h \in syncing : syncLoop(h)

RepeatSpec == RepeatInit /\ [][RepeatNext]_vars

\* handling message m at node n ran its custom callback once more
RanAgain(n, m) ==
    m.cbType \in DOMAIN customRegistry => Runs(n, m.id)' = Runs(n, m.id) + 1

\* C19: nothing but the message buffer remembers a delivery.  A message a
\* node did not create and no callback accepted there is not in its buffer,
\* so not in its digest; the gossip handler solicits every advertised id the
\* buffer lacks, however often its callback ran; and every delivery of a
\* message with a registered custom type by a synchronization runs the
\* callback once more, whether or not the node holds the message.
C19_RepeatedDelivery ==
    /\ [](\A n \in Nodes : \A m \in Created :
             (m.cbType # NOCALLBACK /\ m \notin CreatedAt(n) /\ m.id \notin accepted[n])
                 => m.id \notin Ids(msgBuffer[n]))
    /\ [][/\ \A req \in net :
                gossipHandler(req) =>
                    \A d \in DigestSet(req.digests) :
                        d.id \notin Ids(msgBuffer[req.to]) =>
                            \E sol \in net' \ net :
                                sol.kind = "solicitation" /\ d \in DigestSet(sol.digests)
          /\ \A req \in net :
                (synchronizationHandler(req) /\ req.msgs # <<>>)
                    => RanAgain(req.to, Head(req.msgs))
          /\ \A h \in syncing :
                syncLoop(h) => RanAgain(h.node, Head(h.msgs))]_vars

\* N3 ran the rejecting callback twice for N2's message, which it does not
\* hold, and the accepting callback twice for N1's message: N1 gossiped to
\* N3 once (its other round gave the message to N2), so the two deliveries
\* came from N1 and N2, and the second found the message already accepted
C19_Witness ==
    /\ Runs("N3", ReviewMessage.id) = 2
    /\ ReviewMessage \notin Messages("N3")
    /\ Runs("N3", AuditMessage.id) = 2
    /\ AuditMessage \in Messages("N3")
    /\ AuditMessage \in Messages("N2")
    /\ gossipRound["N1"] = 2
    /\ lastCb.node = "N3" /\ lastCb.id = AuditMessage.id
    /\ lastCb.had /\ lastCb.ranCus /\ lastCb.cus.ok
(***************************************************************************)
(* Start/Stop sequences, checked under LifeSpec.                           *)
(***************************************************************************)
\* the activity Start() call c launched on node n that waits for the stop
\* signal is still alive
AliveOn(n, c) == schedG[n][c] = "running" \/ watcherG[n][c] = "waiting"

\* C20: once the last call on a node was Stop() (its current channel is
\* closed), every scheduler and shutdown watcher still alive was launched
\* with a channel that is closed, so that it ends.
C20_NoOrphanActivity ==
    \A n \in Nodes :
        (stop[n] \in closed[n] /\ ~crashed[n]) =>
            \A c \in Chans : AliveOn(n, c) => c \in closed[n]

====
